---- MODULE Spec2Model ----
(***************************************************************************)
(* Data-access and integrity layer of the event-listing application:       *)
(*   - lib/mongodb.ts           connectToDatabase and its cache slot       *)
(*   - app/api/events/[slug]    the GET lookup-by-slug route handler       *)
(*   - database/event.model.ts  slugify, normalizeTime, Event pre-save     *)
(*   - database/booking.model.ts  Booking pre-save existence check         *)
(*                                                                         *)
(* Strings are sequences of one-character strings, so that trimming,       *)
(* lower-casing, the regular expressions and the padding are computed as   *)
(* the code computes them.                                                 *)
(***************************************************************************)
EXTENDS Integers, Sequences, FiniteSets, TLC

VARIABLES
    cacheObjs,     \* heap of cache objects {conn, promise} (mongodb.ts:10-13)
    cachedOf,      \* cachedOf[m]: object the const `cached` of module instance m refers to
    globalCache,   \* globalThis._mongooseCache: 0 (undefined) or a cache object
    promises,      \* promises[k]: state of the k-th mongoose.connect() attempt
    tasks,         \* callers of connectToDatabase and GET requests
    events,        \* the Event collection: _id -> stored document
    last,          \* the last Event save: its inputs and its outcome
    bookings,      \* the Booking collection
    saves,         \* Booking saves in progress
    value,         \* slugify: the input string
    once,          \* slugify(value)
    twice          \* slugify(slugify(value))

connVars    == <<cacheObjs, cachedOf, globalCache, promises, tasks>>
eventVars   == <<events, last>>
bookingVars == <<bookings, saves>>
slugVars    == <<value, once, twice>>
vars == <<cacheObjs, cachedOf, globalCache, promises, tasks, events, last,
          bookings, saves, value, once, twice>>

----------------------------------------------------------------------------
(* Characters and strings *)

UpperCase == <<"A","B","C","D","E","F","G","H","I","J","K","L","M",
               "N","O","P","Q","R","S","T","U","V","W","X","Y","Z">>
LowerCase == <<"a","b","c","d","e","f","g","h","i","j","k","l","m",
               "n","o","p","q","r","s","t","u","v","w","x","y","z">>
Digits    == <<"0","1","2","3","4","5","6","7","8","9">>

Range(s) == {s[i] : i \in DOMAIN s}

UpperSet == Range(UpperCase)
DigitSet == Range(Digits)
LowerAlnumSet == Range(LowerCase) \cup Range(Digits)

\* [a-z0-9]
IsLowerAlnum(c) == c \in LowerAlnumSet
\* [0-9]
IsDigit(c) == c \in DigitSet
\* Number(c) of one digit
DigitValue(c) == (CHOOSE i \in DOMAIN Digits : Digits[i] = c) - 1
\* \s (the inputs' only white space is the blank)
IsSpace(c) == c = " "

\* the absent string (null / undefined); no string of characters equals it
NullStr == <<"null">>

\* String.prototype.toLowerCase
toLowerCase(s) ==
    [i \in DOMAIN s |->
        IF s[i] \in UpperSet
        THEN LowerCase[CHOOSE k \in DOMAIN UpperCase : UpperCase[k] = s[i]]
        ELSE s[i]]

\* the character classes of the code's patterns: \s, - and [^a-z0-9]
InClass(c, class) ==
    CASE class = "space"  -> IsSpace(c)
      [] class = "hyphen" -> c = "-"
      [] class = "other"  -> ~IsLowerAlnum(c)

\* the length of the maximal run of the class at the start of s
LeadingRun(s, class) ==
    CHOOSE n \in 0..Len(s) :
        /\ \A i \in 1..n : InClass(s[i], class)
        /\ n = Len(s) \/ ~InClass(s[n + 1], class)

Reverse(s) == [i \in DOMAIN s |-> s[Len(s) + 1 - i]]

\* s without the runs of the class at its start and at its end
Strip(s, class) ==
    LET a == LeadingRun(s, class)
        b == LeadingRun(Reverse(s), class)
    IN  IF a = Len(s) THEN <<>> ELSE SubSeq(s, a + 1, Len(s) - b)

\* String.prototype.trim (also the schema option trim: true)
trim(s) == Strip(s, "space")

\* .replace(/[^a-z0-9]+/g, '-'): every maximal run becomes one hyphen
RECURSIVE ReplaceRuns(_)
ReplaceRuns(s) ==
    IF s = <<>> THEN <<>>
    ELSE IF IsLowerAlnum(Head(s)) THEN <<Head(s)>> \o ReplaceRuns(Tail(s))
    ELSE LET n == LeadingRun(s, "other")
         IN  <<"-">> \o ReplaceRuns(SubSeq(s, n + 1, Len(s)))

\* .replace(/^-+|-+$/g, '')
StripHyphens(s) == Strip(s, "hyphen")

\* the two replacements applied in the wrong order
slugifyStripFirst(s) == ReplaceRuns(StripHyphens(trim(toLowerCase(s))))

slugify(s) == StripHyphens(ReplaceRuns(trim(toLowerCase(s))))

\* SLUG_REGEX.test(s): /^[a-z0-9]+(?:-[a-z0-9]+)*$/
SLUG_REGEX(s) ==
    /\ s # <<>>
    /\ \A i \in DOMAIN s : IsLowerAlnum(s[i]) \/ s[i] = "-"
    /\ s[1] # "-" /\ s[Len(s)] # "-"
    /\ \A i \in 1..(Len(s) - 1) : ~(s[i] = "-" /\ s[i + 1] = "-")

----------------------------------------------------------------------------
(* slugify as a function of its input *)

MaxLen == 4
Alphabet == {"a", "B", "7", " ", "-", "!"}
RECURSIVE StringsUpTo(_)
StringsUpTo(n) ==
    IF n = 0 THEN {<<>>}
    ELSE LET shorter == StringsUpTo(n - 1)
         IN  shorter \cup {Append(s, c) : s \in shorter, c \in Alphabet}

IdleConn    == /\ cacheObjs = <<>> /\ cachedOf = <<>> /\ globalCache = 0
               /\ promises = <<>> /\ tasks = <<>>
IdleEvent   == events = <<>> /\ last = <<>>
IdleBooking == bookings = <<>> /\ saves = <<>>
IdleSlug    == value = NullStr /\ once = NullStr /\ twice = NullStr

InitSlug ==
    /\ value \in StringsUpTo(MaxLen)
    /\ once = NullStr /\ twice = NullStr
    /\ IdleConn /\ IdleEvent /\ IdleBooking

Slugify ==
    /\ once = NullStr
    /\ once' = slugify(value)
    /\ UNCHANGED <<value, twice, connVars, eventVars, bookingVars>>

SlugifyAgain ==
    /\ once # NullStr /\ twice = NullStr
    /\ twice' = slugify(once)
    /\ UNCHANGED <<value, once, connVars, eventVars, bookingVars>>

NextSlug == Slugify \/ SlugifyAgain
SpecSlug == InitSlug /\ [][NextSlug]_vars

\* C8: slugify is idempotent: slugify(slugify(T)) = slugify(T) for every
\* title T over the alphabet (letters of both cases, digits, blanks,
\* hyphens, punctuation).
C8_SlugifyIdempotent == twice # NullStr => twice = once

\* a title with upper case, punctuation runs and outer blanks was slugified twice
C8_Witness ==
    /\ value = <<" ", "B", "!", "a">>
    /\ once = <<"b", "-", "a">>
    /\ twice = <<"b", "-", "a">>
----------------------------------------------------------------------------
(* lib/mongodb.ts: connectToDatabase, and the GET route that calls it *)

NumTasks   == 3   \* callers of connectToDatabase / GET requests
MaxReloads == 2   \* module reloads (hot reload)

Tasks == 1..NumTasks

\* { conn: null, promise: null }; null is 0, a handle or a promise is the
\* number of the connect attempt that made it
EmptyCache == [conn |-> 0, promise |-> 0]

\* the strings a request can carry as route segment or query parameter
SlugInputs == { NullStr, <<" ">>, <<"a", "-", "b">>, <<"z", "9">>,
                <<"A", " ", "b">>, <<"-", "a">>, <<"a", "-", "-", "b">> }

\* the collection the route reads: one stored Event
SampleDate == "2025-04-10T00:00:00.000Z"
SampleEvent == [title |-> <<"A", " ", "b">>, slug |-> <<"a", "-", "b">>,
                date |-> SampleDate, time |-> <<"0", "8", ":", "3", "0">>]

IdleTask == [pc |-> "idle", kind |-> "none", inst |-> 0, waiting |-> 0,
             handle |-> 0, outcome |-> "none", params |-> NullStr,
             query |-> NullStr, slug |-> NullStr, lookup |-> "none",
             status |-> 0, issued |-> {}]

InitConn ==
    /\ cacheObjs = <<EmptyCache>>       \* mongodb.ts:32, nothing on globalThis yet
    /\ cachedOf = <<1>>
    /\ globalCache = 0
    /\ promises = <<>>
    /\ tasks = [p \in Tasks |-> IdleTask]
    /\ events = (1 :> SampleEvent)
    /\ last = <<>>
    /\ IdleBooking /\ IdleSlug

\* the module instance that serves new calls
CurrentModule == Len(cachedOf)

\* tasks are interchangeable: they start in the order of their numbers
MayStart(p) ==
    /\ tasks[p].pc = "idle"
    /\ IF p = 1 THEN TRUE ELSE tasks[p - 1].pc # "idle"

\* a hot reload evaluates the module again: mongodb.ts:32
Reload ==
    /\ Len(cachedOf) <= MaxReloads
    /\ IF globalCache # 0
       THEN /\ cachedOf' = Append(cachedOf, globalCache)
            /\ UNCHANGED cacheObjs
       ELSE /\ cacheObjs' = Append(cacheObjs, EmptyCache)
            /\ cachedOf' = Append(cachedOf, Len(cacheObjs) + 1)
    /\ UNCHANGED <<globalCache, promises, tasks, eventVars, bookingVars, slugVars>>

\* mongodb.ts:46 with the test left out: every call connects
StartsAttemptAlways(c) == TRUE

\* mongodb.ts:46  if (!cached.promise)
StartsAttempt(c) == c.promise = 0

\* getSlug with the query string consulted first
getSlugQueryFirst(fromParams, fromQuery) ==
    IF fromQuery # NullStr /\ Len(trim(fromQuery)) > 0 THEN fromQuery
    ELSE IF fromParams # NullStr /\ Len(trim(fromParams)) > 0 THEN fromParams
    ELSE NullStr

\* getSlug: the route segment if it is not blank, else the query parameter
getSlug(fromParams, fromQuery) ==
    IF fromParams # NullStr /\ Len(trim(fromParams)) > 0 THEN fromParams
    ELSE IF fromQuery # NullStr /\ Len(trim(fromQuery)) > 0 THEN fromQuery
    ELSE NullStr

\* Event.findOne({ slug }): some stored document has the slug
findOne(slug) == \E id \in DOMAIN events : events[id].slug = slug

\* what follows connectToDatabase() in its caller: a plain caller has its
\* result; GET goes on to Event.findOne (route:143) or to its catch (route:151-153)
Connected(t, h) ==
    IF t.kind = "GET"
    THEN [t EXCEPT !.pc = "lookup", !.handle = h, !.outcome = "returned",
                   !.issued = @ \cup {"findOne"}]
    ELSE [t EXCEPT !.pc = "done", !.handle = h, !.outcome = "returned"]

Rejected(t) ==
    IF t.kind = "GET"
    THEN [t EXCEPT !.pc = "done", !.outcome = "threw", !.status = 500]
    ELSE [t EXCEPT !.pc = "done", !.outcome = "threw"]

\* connectToDatabase up to its await (mongodb.ts:39-59), called by task p
\* whose record is t
connectToDatabase(p, t) ==
    LET m == CurrentModule
        c == cachedOf[m]
        u == [t EXCEPT !.inst = m, !.issued = @ \cup {"connect"}]
    IN  IF cacheObjs[c].conn # 0
        THEN /\ tasks' = [tasks EXCEPT ![p] = Connected(u, cacheObjs[c].conn)]
             /\ UNCHANGED <<cacheObjs, promises>>
        ELSE IF StartsAttempt(cacheObjs[c])
        THEN /\ promises' = Append(promises, "pending")
             /\ cacheObjs' = [cacheObjs EXCEPT ![c].promise = Len(promises) + 1]
             /\ tasks' = [tasks EXCEPT ![p] =
                    [u EXCEPT !.pc = "awaiting", !.waiting = Len(promises) + 1]]
        ELSE /\ tasks' = [tasks EXCEPT ![p] =
                    [u EXCEPT !.pc = "awaiting", !.waiting = cacheObjs[c].promise]]
             /\ UNCHANGED <<cacheObjs, promises>>

\* some code of the application calls connectToDatabase()
Call(p) ==
    /\ MayStart(p)
    /\ connectToDatabase(p, [tasks[p] EXCEPT !.kind = "direct"])
    /\ UNCHANGED <<cachedOf, globalCache, eventVars, bookingVars, slugVars>>

\* GET up to its first await of the database (route:120-140). One request is
\* followed through the handler; the callers it shares the cache with are the
\* other tasks (a further request acts on the cache as such a caller does).
GET(p) ==
    /\ MayStart(p)
    /\ \A q \in Tasks : tasks[q].kind # "GET"
    /\ \E fromParams \in SlugInputs, fromQuery \in SlugInputs :
         LET slug == getSlug(fromParams, fromQuery)
             t == [tasks[p] EXCEPT !.kind = "GET", !.params = fromParams,
                                   !.query = fromQuery, !.slug = slug]
         IN  IF slug = NullStr
             THEN /\ tasks' = [tasks EXCEPT ![p] = [t EXCEPT !.pc = "done", !.status = 400]]
                  /\ UNCHANGED <<cacheObjs, promises>>
             ELSE IF ~SLUG_REGEX(slug)
             THEN /\ tasks' = [tasks EXCEPT ![p] = [t EXCEPT !.pc = "done", !.status = 400]]
                  /\ UNCHANGED <<cacheObjs, promises>>
             ELSE connectToDatabase(p, t)
    /\ UNCHANGED <<cachedOf, globalCache, eventVars, bookingVars, slugVars>>

\* mongoose.connect() of attempt k succeeds
ConnectResolves(k) ==
    /\ promises[k] = "pending"
    /\ promises' = [promises EXCEPT ![k] = "resolved"]
    /\ UNCHANGED <<cacheObjs, cachedOf, globalCache, tasks, eventVars, bookingVars, slugVars>>

\* mongoose.connect() of attempt k fails
ConnectRejects(k) ==
    /\ promises[k] = "pending"
    /\ promises' = [promises EXCEPT ![k] = "rejected"]
    /\ UNCHANGED <<cacheObjs, cachedOf, globalCache, tasks, eventVars, bookingVars, slugVars>>

\* connectToDatabase after its await (mongodb.ts:59-62): the awaited promise
\* has settled
Resume(p) ==
    LET t == tasks[p]
        c == cachedOf[t.inst]
    IN  /\ t.pc = "awaiting"
        /\ promises[t.waiting] # "pending"
        /\ IF promises[t.waiting] = "resolved"
           THEN /\ cacheObjs' = [cacheObjs EXCEPT ![c].conn = t.waiting]
                /\ globalCache' = c
                /\ tasks' = [tasks EXCEPT ![p] = Connected(t, t.waiting)]
           ELSE /\ tasks' = [tasks EXCEPT ![p] = Rejected(t)]
                /\ UNCHANGED <<cacheObjs, globalCache>>
        /\ UNCHANGED <<cachedOf, promises, eventVars, bookingVars, slugVars>>

\* the answer of Event.findOne arrives (route:143-153); the storage may fail
Lookup(p) ==
    LET t == tasks[p]
    IN  /\ t.pc = "lookup"
        /\ \/ /\ findOne(t.slug)
              /\ tasks' = [tasks EXCEPT ![p] =
                     [t EXCEPT !.pc = "done", !.lookup = "found", !.status = 200]]
           \/ /\ ~findOne(t.slug)
              /\ tasks' = [tasks EXCEPT ![p] =
                     [t EXCEPT !.pc = "done", !.lookup = "missing", !.status = 404]]
           \/ tasks' = [tasks EXCEPT ![p] =
                  [t EXCEPT !.pc = "done", !.lookup = "threw", !.status = 500]]
        /\ UNCHANGED <<cacheObjs, cachedOf, globalCache, promises,
                       eventVars, bookingVars, slugVars>>

Next ==
    \/ Reload
    \/ \E p \in Tasks : Call(p)
    \/ \E p \in Tasks : GET(p)
    \/ \E p \in Tasks : Resume(p)
    \/ \E p \in Tasks : Lookup(p)
    \/ \E k \in DOMAIN promises : ConnectResolves(k)
    \/ \E k \in DOMAIN promises : ConnectRejects(k)

Spec == InitConn /\ [][Next]_vars
----------------------------------------------------------------------------
(* Claims about connectToDatabase and GET *)

Called == {p \in Tasks : "connect" \in tasks[p].issued}
NoFailure == \A k \in DOMAIN promises : promises[k] # "rejected"
NoReload == Len(cachedOf) = 1

\* C1: while the underlying connect does not fail and the module is not
\* reloaded, all calls of connectToDatabase together make exactly one
\* connect attempt: a caller that has to wait waits for that attempt, no
\* caller is thrown at, and every caller that returned holds the handle that
\* attempt produced (also the callers served from cached.conn).
C1_SingleAttempt ==
    (NoFailure /\ NoReload) =>
        /\ Len(promises) <= 1
        /\ Called # {} => Len(promises) = 1
        /\ \A p \in Called :
            /\ tasks[p].pc = "awaiting" => tasks[p].waiting = 1
            /\ tasks[p].outcome # "threw"
            /\ tasks[p].outcome = "returned" => tasks[p].handle = 1
        /\ \A p \in Called, q \in Called :
            (tasks[p].outcome = "returned" /\ tasks[q].outcome = "returned")
                => tasks[p].handle = tasks[q].handle

\* three callers returned the one attempt's handle: two that awaited the
\* attempt and one that found cached.conn set
C1_Witness ==
    /\ NoFailure /\ NoReload /\ Len(promises) = 1
    /\ \E p \in Tasks, q \in Tasks, r \in Tasks :
        /\ p # q
        /\ tasks[p].outcome = "returned" /\ tasks[p].waiting = 1
        /\ tasks[q].outcome = "returned" /\ tasks[q].waiting = 1
        /\ tasks[r].outcome = "returned" /\ tasks[r].waiting = 0
        /\ tasks[r].handle = tasks[p].handle

\* C2: a rejected connect attempt is thrown at every caller awaiting it, and
\* it does not stay in the cache slot: a call made after the rejection starts
\* a new attempt instead of awaiting the rejected promise.
C2_RetryAfterRejection ==
    [][\A p \in Tasks :
        /\ (tasks[p].pc = "awaiting" /\ tasks'[p].pc # "awaiting"
              /\ promises[tasks[p].waiting] = "rejected")
            => tasks'[p].outcome = "threw"
        /\ (tasks[p].pc = "idle" /\ tasks'[p].pc = "awaiting")
            => promises'[tasks'[p].waiting] # "rejected"]_vars

\* C3: whenever the module is reloaded, at most one connection establishment
\* is outstanding, and no attempt is started while an earlier one is in
\* flight or has produced a handle.
C3_OneEstablishmentAcrossReloads ==
    /\ Cardinality({k \in DOMAIN promises : promises[k] = "pending"}) <= 1
    /\ \A k \in DOMAIN promises : promises[k] = "pending" =>
          \A j \in 1..(k - 1) : promises[j] = "rejected"

\* the slug the lookup is about: the route segment, else the query parameter
C10_Slug(t) ==
    IF t.params # NullStr /\ trim(t.params) # <<>> THEN t.params
    ELSE IF t.query # NullStr /\ trim(t.query) # <<>> THEN t.query
    ELSE NullStr

\* C10: a GET whose slug is missing, blank or malformed ends with 400 and has
\* called neither connectToDatabase nor Event.findOne; a well-formed slug
\* reaches connectToDatabase, and the request then ends with 404 exactly when
\* the lookup found no Event and with 500 exactly when the connection or the
\* lookup threw.
C10_GetBySlugStatus ==
    \A p \in Tasks : tasks[p].kind = "GET" =>
        LET t == tasks[p]
            s == C10_Slug(t)
            bad == s = NullStr \/ ~SLUG_REGEX(s)
        IN  /\ bad => (t.pc = "done" /\ t.status = 400 /\ t.issued = {})
            /\ t.status = 400 => bad
            /\ ~bad => ("connect" \in t.issued /\ t.slug = s)
            /\ "findOne" \in t.issued => t.outcome = "returned"
            /\ (~bad /\ t.pc = "done") =>
                /\ t.status \in {200, 404, 500}
                /\ t.status = 404 <=> t.lookup = "missing"
                /\ t.status = 500 <=> (t.outcome = "threw" \/ t.lookup = "threw")
                /\ t.lookup = "missing" <=>
                     ("findOne" \in t.issued /\ ~findOne(s) /\ t.lookup # "threw")

\* a request with a malformed route segment and a well-formed query
\* parameter was answered 400 without touching the database
C10_Witness ==
    \E p \in Tasks :
        /\ tasks[p].kind = "GET" /\ tasks[p].pc = "done"
        /\ tasks[p].params = <<"-", "a">>
        /\ tasks[p].query = <<"a", "-", "b">>
        /\ tasks[p].status = 400 /\ tasks[p].issued = {}
        /\ \E q \in Tasks : tasks[q].outcome = "returned"
----------------------------------------------------------------------------
(* database/event.model.ts: normalizeTime and the Event pre-save hook *)

MaxEvents == 2   \* documents the Event collection can hold
EventIds == 1..MaxEvents

\* Number(match[1]), Number(match[2]): a string of one or two digits
Number(s) ==
    IF Len(s) = 1 THEN DigitValue(s[1])
    ELSE 10 * DigitValue(s[1]) + DigitValue(s[2])

\* n.toString().padStart(2, '0') for 0 <= n <= 99
padStart2(n) == <<Digits[(n \div 10) + 1], Digits[(n % 10) + 1]>>

\* /^([0-9]{1,2}):([0-9]{2})$/ : the position of the colon, 0 without a match
TimeMatch(s) ==
    IF /\ Len(s) \in {4, 5}
       /\ s[Len(s) - 2] = ":"
       /\ \A i \in DOMAIN s : i # Len(s) - 2 => IsDigit(s[i])
    THEN Len(s) - 2
    ELSE 0

\* normalizeTime without the range test
normalizeTimeNoRange(raw) ==
    LET trimmed == trim(raw)
        colon == TimeMatch(trimmed)
    IN  IF colon = 0 THEN NullStr
        ELSE padStart2(Number(SubSeq(trimmed, 1, colon - 1)))
                 \o <<":">> \o padStart2(Number(SubSeq(trimmed, colon + 1, Len(trimmed))))

\* normalizeTime: the HH:MM form, or null
normalizeTime(raw) ==
    LET trimmed == trim(raw)
        colon == TimeMatch(trimmed)
    IN  IF colon = 0 THEN NullStr
        ELSE LET hours == Number(SubSeq(trimmed, 1, colon - 1))
                 minutes == Number(SubSeq(trimmed, colon + 1, Len(trimmed)))
             IN  IF hours < 0 \/ hours > 23 \/ minutes < 0 \/ minutes > 59
                 THEN NullStr
                 ELSE padStart2(hours) \o <<":">> \o padStart2(minutes)

\* new Date(d): the instant a date string parses to ("NaN": unparseable);
\* parsedDate.toISOString() is the instant's text
DateUnset == "unset"
DateInputs == {"2025-04-10", "garbage", ""}
parseDate(d) ==
    CASE d = "2025-04-10" -> SampleDate
      [] d = SampleDate   -> SampleDate
      [] OTHER            -> "NaN"

\* what a save may assign (NullStr: the field is not assigned)
TitleInputs == { NullStr, <<"A", " ", "b">>, <<" ", "a", "-", "b">>,
                 <<"!", "!">>, <<" ">> }
SlugAssigned == { NullStr, <<>>, <<"M", "y">> }
TimeInputs == { NullStr,
                <<"9", ":", "0", "5">>, <<"0", "9", ":", "0", "5">>,
                <<"0", ":", "0", "0">>, <<" ", "2", "3", ":", "5", "9", " ">>,
                <<"a", ":", "0", "0">>,
                <<"2", "4", ":", "0", "0">>, <<"1", "2", ":", "6", "0">>,
                <<"9", ":", "5">>, <<"0", "9", "0", "5">>,
                <<"1", "2", "3", ":", "0", "0">>, <<" ">> }

\* required: true with nonEmptyStringValidator (event.model.ts:52-54), for
\* the fields the hook reads
nonEmptyStringValidator(v) == v # NullStr /\ Len(trim(v)) > 0
validate(doc) ==
    /\ nonEmptyStringValidator(doc.title)
    /\ doc.date \notin {DateUnset, ""}
    /\ nonEmptyStringValidator(doc.time)

\* event.model.ts:203  this.isModified('title') || !this.slug
regeneratesSlug(doc, modified) ==
    "title" \in modified \/ doc.slug \in {NullStr, <<>>}

\* EventSchema.pre('save'): the error it throws and the document it leaves
\* (the fields assigned before a throw stay assigned on the document only)
preSave(doc, modified) ==
    LET slug == IF regeneratesSlug(doc, modified) THEN slugify(doc.title) ELSE doc.slug
        parsedDate == IF "date" \in modified THEN parseDate(doc.date) ELSE doc.date
        normalized == IF "time" \in modified THEN normalizeTime(doc.time) ELSE doc.time
    IN  [error |-> IF "date" \in modified /\ parsedDate = "NaN" THEN "InvalidDate"
                   ELSE IF "time" \in modified /\ normalized = NullStr THEN "InvalidTime"
                   ELSE "none",
         doc |-> [title |-> doc.title, slug |-> slug,
                  date |-> parsedDate, time |-> normalized]]

\* the unique index on slug (event.model.ts:69, 198)
duplicateSlug(id, slug) ==
    \E other \in DOMAIN events : other # id /\ events[other].slug = slug

\* document.save(): setters ran already; validation, the hook, the write
save(id, document, modifiedPaths, rawTime) ==
    \E doc \in {document}, modified \in {modifiedPaths} :
    \E hooked \in {preSave(doc, modified)}, valid \in {validate(doc)} :
    LET result == IF ~valid THEN "ValidationError"
                  ELSE IF hooked.error # "none" THEN hooked.error
                  ELSE IF duplicateSlug(id, hooked.doc.slug) THEN "DuplicateKey"
                  ELSE "ok"
    IN  /\ events' = IF result = "ok"
                     THEN [i \in DOMAIN events \cup {id} |->
                              IF i = id THEN hooked.doc ELSE events[i]]
                     ELSE events
        /\ last' = [id |-> id, time |-> rawTime,
                    timeModified |-> "time" \in modified,
                    valid |-> valid,
                    dateRejected |-> hooked.error = "InvalidDate",
                    result |-> result]

\* the schema's trim: true on an assigned string
setter(v) == IF v = NullStr THEN NullStr ELSE trim(v)

\* new Event({...}).save(): every given path counts as modified
Create(id, title, slug, date, time) ==
    /\ id \notin DOMAIN events
    /\ save(id,
            [title |-> setter(title), slug |-> setter(slug),
             date |-> date, time |-> setter(time)],
            {f \in {"title", "slug", "date", "time"} :
                \/ f = "title" /\ title # NullStr
                \/ f = "slug" /\ slug # NullStr
                \/ f = "date" /\ date # DateUnset
                \/ f = "time" /\ time # NullStr},
            time)
    /\ UNCHANGED <<connVars, bookingVars, slugVars>>

\* a stored document is loaded, some paths are assigned, save(): a path is
\* modified when its value after the setter differs from the stored one
Update(id, title, slug, date, time) ==
    /\ id \in DOMAIN events
    /\ LET old == events[id]
           doc == [title |-> IF title = NullStr THEN old.title ELSE setter(title),
                   slug  |-> IF slug = NullStr THEN old.slug ELSE setter(slug),
                   date  |-> IF date = DateUnset THEN old.date ELSE date,
                   time  |-> IF time = NullStr THEN old.time ELSE setter(time)]
       IN  save(id, doc,
                {f \in {"title", "slug", "date", "time"} : doc[f] # old[f]},
                time)
    /\ UNCHANGED <<connVars, bookingVars, slugVars>>

InitEvent ==
    /\ events = <<>>
    /\ last = [id |-> 0, time |-> NullStr, timeModified |-> FALSE, valid |-> FALSE,
               dateRejected |-> FALSE, result |-> "none"]
    /\ IdleConn /\ IdleBooking /\ IdleSlug

\* saves that vary the title and the assigned slug
NextEvent ==
    \E id \in EventIds, title \in TitleInputs, slug \in SlugAssigned,
       date \in {DateUnset, "2025-04-10", "garbage"},
       time \in {NullStr, <<"9", ":", "0", "5">>, <<"2", "4", ":", "0", "0">>} :
        \/ Create(id, title, slug, date, time)
        \/ Update(id, title, slug, date, time)
SpecEvent == InitEvent /\ [][NextEvent]_vars

\* saves that vary the date and the time
NextEventTime ==
    \E id \in EventIds, title \in {NullStr, <<"A", " ", "b">>},
       date \in DateInputs \cup {DateUnset}, time \in TimeInputs :
        \/ Create(id, title, NullStr, date, time)
        \/ Update(id, title, NullStr, date, time)
SpecEventTime == InitEvent /\ [][NextEventTime]_vars
----------------------------------------------------------------------------
(* Claims about the Event pre-save hook *)

\* C6: every stored Event has a non-empty slug that matches
\* ^[a-z0-9]+(-[a-z0-9]+)*$ (a save whose title slugifies to the empty string
\* is rejected and stores nothing).
C6_StoredSlugWellFormed ==
    \A id \in DOMAIN events : events[id].slug # <<>> /\ SLUG_REGEX(events[id].slug)

\* C7: every stored Event's slug is slugify of its title (a hand-set slug
\* that differs from it is never persisted).
C7_SlugDerivedFromTitle ==
    \A id \in DOMAIN events : events[id].slug = slugify(events[id].title)

\* HH:MM with hours 00..23 and minutes 00..59
C9_IsHHMM(s) ==
    /\ Len(s) = 5 /\ s[3] = ":"
    /\ \A i \in {1, 2, 4, 5} : IsDigit(s[i])
    /\ 10 * DigitValue(s[1]) + DigitValue(s[2]) <= 23
    /\ 10 * DigitValue(s[4]) + DigitValue(s[5]) <= 59

\* the claim's reading of a time string: trimmed, 1-2 digits, a colon, 2
\* digits, hour <= 23, minute <= 59; its zero-padded form, NullStr otherwise
C9_Expected(raw) ==
    LET s == trim(raw)
    IN  IF Len(s) = 4 /\ C9_IsHHMM(<<"0">> \o s) THEN <<"0">> \o s
        ELSE IF Len(s) = 5 /\ C9_IsHHMM(s) THEN s
        ELSE NullStr

C9_Stored ==
    /\ \A id \in DOMAIN events : C9_IsHHMM(events[id].time)
    /\ last.timeModified =>
        /\ (C9_Expected(last.time) # NullStr /\ last.result = "ok")
              => events[last.id].time = C9_Expected(last.time)
        /\ C9_Expected(last.time) # NullStr => last.result # "InvalidTime"
        /\ C9_Expected(last.time) = NullStr
              => last.result \in {"ValidationError", "InvalidDate", "InvalidTime"}
        /\ (C9_Expected(last.time) = NullStr /\ last.valid /\ ~last.dateRejected)
              => last.result = "InvalidTime"

----------------------------------------------------------------------------
(* database/booking.model.ts: the Booking pre-save hook *)

NumSaves == 2   \* Booking saves
Savers == 1..NumSaves

EmailInputs == { <<"a", "@", "b", ".", "c">>, <<" ", "A", "@", "b", ".", "c">>,
                 <<"a", "@", "b">> }

\* EMAIL_REGEX.test(v): /^[^\s@]+@[^\s@]+\.[^\s@]+$/
EMAIL_REGEX(v) ==
    \E at \in DOMAIN v, dot \in DOMAIN v :
        /\ 1 < at /\ at + 1 < dot /\ dot < Len(v)
        /\ v[at] = "@" /\ v[dot] = "."
        /\ \A i \in DOMAIN v : i # at => ~IsSpace(v[i]) /\ v[i] # "@"

\* the hook without its test: every save passes
eventExistsAlways(eventId) == TRUE

\* Event.exists({ _id: this.eventId })
eventExists(eventId) == eventId \in DOMAIN events

IdleSave == [pc |-> "idle", eventId |-> 0, email |-> NullStr, result |-> "none"]

InitBooking ==
    /\ events = (1 :> SampleEvent)
    /\ last = [id |-> 0, time |-> NullStr, timeModified |-> FALSE, valid |-> FALSE,
               dateRejected |-> FALSE, result |-> "none"]
    /\ bookings = <<>>
    /\ saves = [p \in Savers |-> IdleSave]
    /\ IdleConn /\ IdleSlug

\* saves are interchangeable: they start in the order of their numbers
MaySave(p) ==
    /\ saves[p].pc = "idle"
    /\ IF p = 1 THEN TRUE ELSE saves[p - 1].pc # "idle"

\* new Booking({eventId, email}).save() up to the answer of Event.exists:
\* setters (trim, lowercase), validation, then the pre-save hook
BookingPreSave(p) ==
    /\ MaySave(p)
    /\ \E eventId \in EventIds, raw \in EmailInputs :
        \E email \in {toLowerCase(trim(raw))} :
          saves' = [saves EXCEPT ![p] =
            IF ~EMAIL_REGEX(email)
            THEN [pc |-> "failed", eventId |-> eventId, email |-> email,
                  result |-> "ValidationError"]
            ELSE IF ~eventExists(eventId)
            THEN [pc |-> "failed", eventId |-> eventId, email |-> email,
                  result |-> "DanglingReference"]
            ELSE [pc |-> "checked", eventId |-> eventId, email |-> email,
                  result |-> "none"]]
    /\ UNCHANGED <<bookings, connVars, eventVars, slugVars>>

\* the insert that follows a hook that did not throw; existed records, for
\* the stored document, whether its Event was there when it was written
BookingInsert(p) ==
    /\ saves[p].pc = "checked"
    /\ bookings' = Append(bookings,
          [eventId |-> saves[p].eventId, email |-> saves[p].email,
           existed |-> saves[p].eventId \in DOMAIN events])
    /\ saves' = [saves EXCEPT ![p].pc = "saved", ![p].result = "ok"]
    /\ UNCHANGED <<connVars, eventVars, slugVars>>

\* another request deletes an Event
DeleteEvent(id) ==
    /\ id \in DOMAIN events
    /\ events' = [i \in DOMAIN events \ {id} |-> events[i]]
    /\ UNCHANGED <<last, connVars, bookingVars, slugVars>>

NextBooking ==
    \/ \E p \in Savers : BookingPreSave(p)
    \/ \E p \in Savers : BookingInsert(p)
    \/ \E id \in EventIds : DeleteEvent(id)
    \/ \E id \in EventIds :
          Create(id, <<"e", Digits[id + 1]>>, NullStr, "2025-04-10",
                 <<"9", ":", "0", "5">>)
SpecBooking == InitBooking /\ [][NextBooking]_vars

\* C4: the existence check and the write are atomic: every stored Booking
\* was written while the Event its eventId names existed.
C4_NoBookingForMissingEvent ==
    \A i \in DOMAIN bookings : bookings[i].existed

====
